---- MODULE Spec2Model ----
(***************************************************************************)
(* Model of BhavCopy-Analyser:                                             *)
(*   - bseindia_apiScraper (src/bsescraper.py): the recursive              *)
(*     pagination/retry controller, one transport call per recursion level *)
(*   - scrape_company_wise / scrape_day_wise                               *)
(*     (src/bse_announcements_tab.py): the batch loops driving it          *)
(*   - the announcement tables of both exchanges                           *)
(*   - the bhavcopy downloads (src/stock_comparison_tab.py,                *)
(*     src/new_functionality_tab.py)                                       *)
(*   - scrape_nse_announcements_robust (src/webscraper.py) and its caller  *)
(*     get_nse_announcements_for_symbol                                    *)
(*   - the authentication gate (src/app.py, src/auth.py).                  *)
(* Python exceptions are modelled by the control states "raised".          *)
(***************************************************************************)
EXTENDS Integers, Sequences, FiniteSets, TLC

VARIABLES
    mode,               \* "fetch" | "company" | "day": which entry point runs
    fpc,                \* fetch: "idle" | "call" | "blocked" | "returned" | "raised"
    qParams,            \* the mutable parameter mapping (function on present keys)
    searchDate,         \* searchDate argument of the running fetch
    prevData,           \* rows accumulated by the earlier recursion levels
    depth,              \* depth argument of the running recursion level
    log,                \* history: one entry per transport call of the fetch
    result,             \* the mapping returned by the fetch
    bpc,                \* batch loop: "off" | "loop" | "wait" | "done" | "raised"
    units,              \* scrip_codes_to_scrape, or <<start_date, end_date>>
    scrip_code,         \* scrape_day_wise: optional instrument filter
    print_msgs,         \* the message flag of the batch functions
    idx,                \* number of loop iterations started (i + 1 / day_count)
    current_date,       \* scrape_day_wise loop variable
    all_announcements,  \* rows collected by the batch
    diag,               \* observable diagnostics: print() and st.warning calls
    progress,           \* my_bar.progress calls, as <<numerator, denominator>>
    unitLog,            \* history: one entry per finished unit of the batch
    defaultQ,           \* the mapping object that is the default of qParams
    aliased,            \* the running fetch was called without a qParams argument
    calls,              \* history: fetches finished earlier in the same process
    rpc,                \* table pipeline: "off" | "rows" | "table" | "done" | "raised"
    srcRows,            \* the rows the exchange delivered, as field mappings
    outTable,           \* the table handed to the presentation layer
    dpc,                \* download: "off" | "idle" | "responded" | "returned"
    dlCur,              \* the running download: function, what the server sends
    dlLog,              \* history: one entry per finished download
    npc,                \* NSE scraper: "off" | "start" | "created" | "session"
                        \*   | "extract" | "returned" | "raised"
    driver,             \* the browser session: "none" | "open" | "quit"
    retry,              \* extraction passes started
    announcements,      \* the list the extraction passes append to
    limit,              \* limit argument: <<>> for None, <<n>> for an integer
    wpc,                \* get_nse_announcements_for_symbol: "off" | "start"
                        \*   | "scraping" | "raised"
    wargs,              \* its arguments
    authenticated,      \* st.session_state['authenticated']: <<>> (no such
                        \*   key) or <<b>>
    view,               \* what the last script run rendered
    lastRun,            \* history: the interaction that triggered the last run
    secrets,            \* st.secrets["credentials"]
    runs                \* history: number of script runs so far

vars == <<mode, fpc, qParams, searchDate, prevData, depth, log, result, bpc,
          units, scrip_code, print_msgs, idx, current_date,
          all_announcements, diag, progress, unitLog,
          defaultQ, aliased, calls, rpc, srcRows, outTable,
          dpc, dlCur, dlLog, npc, driver, retry, announcements, limit,
          wpc, wargs, authenticated, view, lastRun, secrets, runs>>

seqVars == <<defaultQ, aliased, calls>>
rowVars == <<rpc, srcRows, outTable>>
dlVars == <<dpc, dlCur, dlLog>>
nseVars == <<npc, driver, retry, announcements, limit, wpc, wargs>>
authVars == <<authenticated, view, lastRun, secrets, runs>>

fetchVars == <<fpc, qParams, searchDate, prevData, depth, log, result>>
batchVars == <<bpc, units, scrip_code, print_msgs, idx, current_date,
               all_announcements, progress, unitLog>>

-----------------------------------------------------------------------------
(* Bounds of the model *)

MaxDepthIn == 2         \* largest maxDepth a caller of the single fetch supplies
MaxPageIn == 2          \* largest pageno a caller of the single fetch supplies
MaxRows == 2            \* rows per page
MaxPages == 2           \* largest TotalPageCnt the server reports
MaxCalls == 3           \* transport calls served with an advancing response
MaxBatchCalls == 2      \* the same, per unit of a batch
MaxUnits == 2           \* identifiers in an entity-wise batch
MaxDay == 3             \* calendar days are 1..MaxDay

(* Program constants *)

DefaultMaxDepth == 998
DefaultPageNo == 1
HttpOk == 200
DaysBack == 1

NoneVal == "None"       \* Python None
Absent == "<absent>"    \* a key a row does not carry

-----------------------------------------------------------------------------
(* Python helpers *)

Get(q, k, d) == IF k \in DOMAIN q THEN q[k] ELSE d

Put(q, k, v) == [x \in DOMAIN q \cup {k} |-> IF x = k THEN v ELSE q[x]]

Falsy(s) == s \in {NoneVal, ""}

RECURSIVE SumSeq(_)
SumSeq(s) == IF s = <<>> THEN 0 ELSE Head(s) + SumSeq(Tail(s))

RECURSIVE Flatten(_)
Flatten(ss) == IF ss = <<>> THEN <<>> ELSE Head(ss) \o Flatten(Tail(ss))

Range(s) == {s[i] : i \in DOMAIN s}

-----------------------------------------------------------------------------
(* Dates.  A date object is its day number (days since 1970-01-01); an      *)
(* 8-character date string 'YYYYMMDD' is the number its digits spell.      *)

DaysFromCivil(y, m, d) ==
    LET yy == IF m <= 2 THEN y - 1 ELSE y
        era == yy \div 400
        yoe == yy - era * 400
        mp == IF m > 2 THEN m - 3 ELSE m + 9
        doy == (153 * mp + 2) \div 5 + d - 1
        doe == yoe * 365 + yoe \div 4 - yoe \div 100 + doy
    IN era * 146097 + doe - 719468

CivilFromDays(z) ==
    LET zz == z + 719468
        era == zz \div 146097
        doe == zz - era * 146097
        yoe == (doe - doe \div 1460 + doe \div 36524 - doe \div 146096) \div 365
        doy == doe - (365 * yoe + yoe \div 4 - yoe \div 100)
        mp == (5 * doy + 2) \div 153
        d == doy - (153 * mp + 2) \div 5 + 1
        m == IF mp < 10 THEN mp + 3 ELSE mp - 9
        y == yoe + era * 400 + (IF m <= 2 THEN 1 ELSE 0)
    IN <<y, m, d>>

(* date.today() *)
Today == DaysFromCivil(2024, 1, 2)

(* sd.isoformat().replace('-', '') *)
IsoDigits(day) ==
    LET c == CivilFromDays(day) IN c[1] * 10000 + c[2] * 100 + c[3]

(* date.fromisoformat(f'{sd[:4]}-{sd[4:6]}-{sd[6:]}'): <<day>>, or <<>>    *)
(* when it raises                                                          *)
FromDigits(digits) ==
    LET y == digits \div 10000
        m == (digits \div 100) % 100
        d == digits % 100
    IN IF y >= 1 /\ y <= 9999 /\ m >= 1 /\ m <= 12 /\ d >= 1
          /\ CivilFromDays(DaysFromCivil(y, m, d)) = <<y, m, d>>
       THEN <<DaysFromCivil(y, m, d)>>
       ELSE <<>>

(* The searchDate argument.  kind: "none" (None), "date" (a date object,   *)
(* v its day number), "ymd" (a string of 8 digits, v the digits), "text"   *)
(* (any other string that is not a token), "token" (tok a key of           *)
(* daysDict), "int" (v the integer)                                        *)
Target(kind, tok, v) == [kind |-> kind, tok |-> tok, v |-> v]

NoTarget == Target("none", "", 0)
DateTarget(day) == Target("date", "", day)

(* Mutant: cleanDate keeps the month and day digits but not the year *)
CleanDate_DropsYear(sd) ==
    IF sd.kind = "date" THEN IsoDigits(sd.v) % 10000
    ELSE IF sd.kind = "ymd" /\ FromDigits(sd.v) # <<>>
    THEN IsoDigits(FromDigits(sd.v)[1]) % 10000
    ELSE IsoDigits(Today) % 10000

(* cleanDate, lines 6-11: the 8 digits of the date, today's when the       *)
(* argument is not a date and does not parse as one                        *)
CleanDate(sd) ==
    IF sd.kind = "date" THEN IsoDigits(sd.v)
    ELSE IF sd.kind = "ymd" /\ FromDigits(sd.v) # <<>>
    THEN IsoDigits(FromDigits(sd.v)[1])
    ELSE IsoDigits(Today)

(* daysDict, line 19 *)
DaysDict == [week |-> 7, month |-> 30, year |-> 365, day |-> 1]

(* Lines 20-21: the default for a falsy target, then the token lookup *)
ResolveTarget(sd) ==
    LET sd1 == IF sd.kind = "none" \/ (sd.kind = "int" /\ sd.v = 0)
               THEN DateTarget(Today) ELSE sd
    IN IF sd1.kind = "token" /\ sd1.tok \in DOMAIN DaysDict
       THEN Target("int", "", DaysDict[sd1.tok])
       ELSE sd1

(* Lines 22-25: a positive integer writes the window into qParams *)
WindowParams(q, sd) ==
    LET t == ResolveTarget(sd)
    IN IF t.kind = "int" /\ t.v > 0
       THEN Put(Put(q, "strPrevDate", IsoDigits(Today - t.v)),
                "strToDate", IsoDigits(Today))
       ELSE q

(* Line 26 *)
CleanTarget(sd) == CleanDate(ResolveTarget(sd))

QueryKeys == {"pageno", "strCat", "strPrevDate", "strScrip", "strSearch",
              "strToDate", "strType"}

(* qDefaults, lines 28-31 *)
QDefaults(sdDigits) ==
    [pageno |-> 1, strCat |-> -1, strPrevDate |-> sdDigits, strScrip |-> "",
     strSearch |-> "P", strToDate |-> sdDigits, strType |-> "C"]

(* qStr, line 32: the value of the mapping, else the default *)
QueryString(q, sdDigits) ==
    [k \in QueryKeys |-> Get(q, k, QDefaults(sdDigits)[k])]

(* The request one recursion level issues for its arguments *)
RequestOf(q, sd) == QueryString(WindowParams(q, sd), CleanTarget(sd))

-----------------------------------------------------------------------------
(* Transport responses.  kind is the shape of the body:                    *)
(*   "notjson"     body is not JSON                                        *)
(*   "nonobject"   JSON that is not an object                              *)
(*   "notable"     object without the key 'Table'                          *)
(*   "null"        'Table' is null (has no len, cannot be sliced)          *)
(*   "scalar"      'Table' is a non-empty string or object                 *)
(*   "emptyscalar" 'Table' is an empty string or object                    *)
(*   "list"        'Table' is a list of n rows; first says whether the     *)
(*                 first row is a record, a non-record, or a record whose  *)
(*                 TotalPageCnt is not a number; cnt is its TotalPageCnt   *)
(*                 (0 stands for a record without the key as well)         *)

(* Status codes: 200, a non-200 code raise_for_status accepts, an error  *)
Codes == {HttpOk, 204, 500}

Resp(c, k, n, f, t) == [code |-> c, kind |-> k, n |-> n, first |-> f, cnt |-> t]

Responses ==
    {Resp(c, k, 0, "record", 0) :
        c \in Codes,
        k \in {"notjson", "nonobject", "notable", "null", "scalar",
               "emptyscalar", "list"}}
    \cup {Resp(c, "list", n, "record", t) :
            c \in Codes, n \in 1..MaxRows, t \in 0..MaxPages}
    \cup {Resp(c, "list", 1, f, 0) :
            c \in Codes, f \in {"nonrecord", "badcnt"}}

BatchResponses ==
    {Resp(HttpOk, "list", 1, "record", 1), Resp(HttpOk, "list", 1, "record", 2),
     Resp(HttpOk, "list", 0, "record", 0), Resp(HttpOk, "notjson", 0, "record", 0),
     Resp(500, "notjson", 0, "record", 0),
     Resp(HttpOk, "list", 1, "nonrecord", 0),
     Resp(HttpOk, "null", 0, "record", 0),
     Resp(HttpOk, "list", 1, "other", 1)}

(* An instrument nobody asked for *)
OtherScrip == "500112"

(* The rows of a response, stamped with the unit and call that served      *)
(* them; scrip is the instrument the row is about: the one of the request  *)
(* ('' when the request names none), or another one when the endpoint      *)
(* answers with a row of another instrument (first = "other")              *)
MkRows(resp, u, a) ==
    [k \in 1..resp.n |->
        [unit |-> u, att |-> a, k |-> k,
         rec |-> (k > 1 \/ resp.first # "nonrecord"),
         scrip |-> IF k = 1 /\ resp.first = "other" THEN OtherScrip
                   ELSE Get(qParams, "strScrip", "")]]

-----------------------------------------------------------------------------
(* One recursion level of bseindia_apiScraper *)

RaisesForStatus(code) == code >= 400 /\ code < 600

TableIsList(resp) == resp.kind = "list"

PageOf(st, sh, rows, tp, ok) ==
    [status |-> st, shape |-> sh, rows |-> rows, totalPgs |-> tp, pgsOk |-> ok]

(* The try block: status, curData (shape and rows) and totalPgs *)
Page(resp, rows) ==
    IF resp.kind \in {"notjson", "nonobject"}
    THEN PageOf("error", "list", <<>>, 0, TRUE)
    ELSE IF ~TableIsList(resp) /\ RaisesForStatus(resp.code)
    THEN PageOf("error", "list", <<>>, 0, TRUE)
    ELSE CASE resp.kind = "notable" -> PageOf("success", "list", <<>>, 0, TRUE)
           [] resp.kind = "null" -> PageOf("error", "null", <<>>, 0, TRUE)
           [] resp.kind = "scalar" -> PageOf("error", "scalar", <<>>, 0, TRUE)
           [] resp.kind = "emptyscalar" ->
                PageOf("success", "emptyscalar", <<>>, 0, TRUE)
           [] resp.kind = "list" ->
                IF resp.n = 0 THEN PageOf("success", "list", <<>>, 0, TRUE)
                ELSE IF resp.first = "nonrecord"
                THEN PageOf("error", "list", rows, 0, TRUE)
                ELSE PageOf("success", "list", rows, resp.cnt,
                            resp.first # "badcnt")

(* len(curData): raises for null, positive for a non-empty scalar *)
LenRaises(pg) == pg.shape = "null"

(* Mutant: an empty page counts as one row *)
LenOf_NeverEmpty(pg) == IF pg.shape = "scalar" THEN 1 ELSE Len(pg.rows) + 1

LenOf(pg) == IF pg.shape = "scalar" THEN 1 ELSE Len(pg.rows)

(* Mutant: the page after the current one is skipped *)
NextPage_SkipsOne(curPg) == curPg + 2

(* Line 67: nextPg = curPg + 1 *)
NextPage(curPg) == curPg + 1

(* prevData[:]+curData[:] raises unless curData is a list *)
ConcatRaises(pg) == pg.shape # "list"

(* Mutant: the rows of the earlier pages are dropped *)
Accumulate_DropsPrev(prev, cur) == cur

(* prevData[:]+curData[:] for a list curData *)
Accumulate(prev, cur) == prev \o cur

(* Mutant: the recursion guard reads depth <= maxDepth *)
Decide_DepthOffByOne(pg, code, curPg, d, maxDepth) ==
    IF ~(d <= maxDepth) THEN [raise |-> FALSE, nextPg |-> <<>>]
    ELSE IF pg.status = "success"
    THEN IF ~pg.pgsOk THEN [raise |-> TRUE, nextPg |-> <<>>]
         ELSE IF curPg < pg.totalPgs
         THEN [raise |-> FALSE, nextPg |-> <<curPg + 1>>]
         ELSE [raise |-> FALSE, nextPg |-> <<>>]
    ELSE IF code # HttpOk
    THEN IF pg.shape = "null" THEN [raise |-> TRUE, nextPg |-> <<>>]
         ELSE [raise |-> FALSE,
               nextPg |-> <<curPg + (IF pg.shape = "scalar" \/ Len(pg.rows) > 0
                                     THEN 1 ELSE 0)>>]
    ELSE [raise |-> FALSE, nextPg |-> <<>>]

(* Lines 65-69: nextPg is <<>> for None, <<p>> for a page number *)
Decide(pg, code, curPg, d, maxDepth) ==
    IF ~(d < maxDepth) THEN [raise |-> FALSE, nextPg |-> <<>>]
    ELSE IF pg.status = "success"
    THEN IF ~pg.pgsOk THEN [raise |-> TRUE, nextPg |-> <<>>]
         ELSE IF curPg < pg.totalPgs
         THEN [raise |-> FALSE, nextPg |-> <<NextPage(curPg)>>]
         ELSE [raise |-> FALSE, nextPg |-> <<>>]
    ELSE IF code # HttpOk
    THEN IF LenRaises(pg) THEN [raise |-> TRUE, nextPg |-> <<>>]
         ELSE [raise |-> FALSE,
               nextPg |-> <<curPg + (IF LenOf(pg) > 0 THEN 1 ELSE 0)>>]
    ELSE [raise |-> FALSE, nextPg |-> <<>>]

(* if nextPg: *)
Truthy(np) == np # <<>> /\ np[1] # 0

Advances(resp, curPg, d, maxDepth) ==
    LET pg == Page(resp, <<>>)
        dec == Decide([pg EXCEPT !.rows = [k \in 1..resp.n |-> k]],
                      resp.code, curPg, d, maxDepth)
    IN ~dec.raise /\ Truthy(dec.nextPg)

NoResult == [status |-> "none", data |-> <<>>, depth |-> -1, maxDepth |-> -1]

(* A value of the 'Table1' key.  shape: "na" (the initial 'N/A' of line    *)
(* 17), "none" (None: null or no such key), "scalar" (v), "list" (items)   *)
T1(shape, v, items) == [shape |-> shape, v |-> v, items |-> items]

Table1NA == T1("na", "N/A", <<>>)
Table1None == T1("none", "", <<>>)

Table1Values ==
    {Table1None, T1("scalar", "a", <<>>), T1("list", "", <<>>),
     T1("list", "", <<T1("scalar", "a", <<>>)>>),
     T1("list", "", <<T1("list", "", <<>>)>>),
     T1("list", "", <<T1("scalar", "a", <<>>), T1("scalar", "b", <<>>)>>)}

(* The Table1 values the transport is given to answer with *)
Table1Choices == IF mode = "calls" THEN Table1Values ELSE {Table1None}

(* Lines 17 and 53-55: t1Data keeps 'N/A' unless line 55 is reached *)
T1Data(resp, t1) ==
    IF resp.kind \in {"notjson", "nonobject"} THEN Table1NA
    ELSE IF ~TableIsList(resp) /\ RaisesForStatus(resp.code) THEN Table1NA
    ELSE t1

(* Mutant: the first element of any non-empty list is taken *)
Unwrap_AnyNonEmptyList(t) ==
    IF t.shape = "list" /\ Len(t.items) >= 1 THEN t.items[1] ELSE t

(* Line 77 *)
Unwrap(t) ==
    IF t.shape = "list" /\ Len(t.items) = 1 THEN t.items[1] ELSE t

(* Mutant: a final attempt classified error returns its own rows only *)
FinalResult_ErrorDropsEarlierRows(prev, pg, entry) ==
    [data |-> IF pg.status = "error" THEN pg.rows ELSE Accumulate(prev, pg.rows),
     Table1 |-> Unwrap(entry.t1Data), status |-> pg.status,
     latest_call |-> entry.request, latest_rStatus |-> entry.code,
     depth |-> entry.depth, maxDepth |-> entry.maxDepth]

(* Lines 77-82: the mapping returned by the last recursion level *)
FinalResult(prev, pg, entry) ==
    [data |-> Accumulate(prev, pg.rows),
     Table1 |-> Unwrap(entry.t1Data), status |-> pg.status,
     latest_call |-> entry.request, latest_rStatus |-> entry.code,
     depth |-> entry.depth, maxDepth |-> entry.maxDepth]

CallCap == IF mode = "fetch" THEN MaxCalls ELSE MaxBatchCalls

(* The transport answers; the level parses, decides and recurses or returns *)
Attempt(resp) ==
    /\ fpc = "call"
    /\ \E t1 \in Table1Choices :
       LET curPg == Get(qParams, "pageno", DefaultPageNo)
           maxDepth == Get(qParams, "maxDepth", DefaultMaxDepth)
           isv == Get(qParams, "printMsgs", FALSE)
           q1 == WindowParams(qParams, searchDate)
           rows == MkRows(resp, idx, Len(log) + 1)
           pg == Page(resp, rows)
           dec == Decide(pg, resp.code, curPg, depth, maxDepth)
           entry == [page |-> curPg, depth |-> depth, maxDepth |-> maxDepth,
                     status |-> pg.status, code |-> resp.code,
                     kind |-> resp.kind, rows |-> pg.rows,
                     totalPgs |-> pg.totalPgs, pgsOk |-> pg.pgsOk,
                     raised |-> "no", target |-> searchDate,
                     given |-> qParams,
                     request |-> RequestOf(qParams, searchDate),
                     table1 |-> t1, t1Data |-> T1Data(resp, t1)]
       IN /\ Len(log) + 1 < CallCap \/ ~Advances(resp, curPg, depth, maxDepth)
          /\ diag' = IF isv
                     THEN Append(diag, [src |-> "print", unit |-> idx,
                                        status |-> pg.status])
                     ELSE diag
          /\ IF dec.raise
             THEN /\ fpc' = "raised"
                  /\ log' = Append(log, [entry EXCEPT !.raised = "decide"])
                  /\ qParams' = q1
                  /\ UNCHANGED <<searchDate, prevData, depth, result>>
             ELSE IF Truthy(dec.nextPg)
             THEN /\ qParams' = Put(q1, "pageno", dec.nextPg[1])
                  /\ IF ConcatRaises(pg)
                     THEN /\ fpc' = "raised"
                          /\ log' = Append(log, [entry EXCEPT !.raised = "concat"])
                          /\ UNCHANGED <<searchDate, prevData, depth>>
                     ELSE /\ fpc' = "call"
                          /\ log' = Append(log, entry)
                          /\ searchDate' = Target("ymd", "", CleanTarget(searchDate))
                          /\ prevData' = Accumulate(prevData, pg.rows)
                          /\ depth' = depth + 1
                  /\ UNCHANGED result
             ELSE /\ IF ConcatRaises(pg)
                     THEN /\ fpc' = "raised"
                          /\ log' = Append(log, [entry EXCEPT !.raised = "concat"])
                          /\ UNCHANGED result
                     ELSE /\ fpc' = "returned"
                          /\ log' = Append(log, entry)
                          /\ result' = FinalResult(prevData, pg, entry)
                  /\ qParams' = q1
                  /\ UNCHANGED <<searchDate, prevData, depth>>
    /\ defaultQ' = IF aliased THEN qParams' ELSE defaultQ
    /\ UNCHANGED <<mode, aliased, calls>>
    /\ UNCHANGED batchVars
    /\ UNCHANGED <<rowVars, dlVars, nseVars, authVars>>

(* requests.get itself raises (connection failure, timeout): line 50 is    *)
(* outside the try block, so the exception leaves bseindia_apiScraper      *)
TransportRaises(why) ==
    /\ fpc = "call"
    /\ fpc' = "raised"
    /\ log' = Append(log, [page |-> Get(qParams, "pageno", DefaultPageNo),
                           depth |-> depth,
                           maxDepth |-> Get(qParams, "maxDepth", DefaultMaxDepth),
                           status |-> "none", code |-> 0, kind |-> why,
                           rows |-> <<>>, totalPgs |-> 0, pgsOk |-> TRUE,
                           raised |-> "transport", target |-> searchDate,
                           given |-> qParams,
                           request |-> RequestOf(qParams, searchDate),
                           table1 |-> Table1None, t1Data |-> Table1NA])
    /\ qParams' = WindowParams(qParams, searchDate)
    /\ defaultQ' = IF aliased THEN qParams' ELSE defaultQ
    /\ UNCHANGED <<mode, searchDate, prevData, depth, result, diag, aliased, calls>>
    /\ UNCHANGED batchVars
    /\ UNCHANGED <<rowVars, dlVars, nseVars, authVars>>

TransportFailures == {"timeout", "unreachable"}

(* requests.get is called without a timeout argument: when the server      *)
(* never answers, the call blocks for ever                                 *)
TransportStalls ==
    /\ fpc = "call"
    /\ fpc' = "blocked"
    /\ qParams' = WindowParams(qParams, searchDate)
    /\ defaultQ' = IF aliased THEN qParams' ELSE defaultQ
    /\ UNCHANGED <<mode, searchDate, prevData, depth, log, result, diag,
                   aliased, calls>>
    /\ UNCHANGED batchVars
    /\ UNCHANGED <<rowVars, dlVars, nseVars, authVars>>

(* The parts of the program a specification does not run *)
DownloadOff == dpc = "off" /\ dlCur = <<>> /\ dlLog = <<>>

NseOff ==
    /\ npc = "off"
    /\ driver = "none"
    /\ retry = 0
    /\ announcements = <<>>
    /\ limit = <<>>
    /\ wpc = "off"
    /\ wargs = <<>>

AuthOff ==
    /\ authenticated = <<>>
    /\ view = "none"
    /\ lastRun = <<>>
    /\ secrets = <<>>
    /\ runs = 0

-----------------------------------------------------------------------------
(* A single logical fetch: bseindia_apiScraper(searchDate, qParams) called *)
(* with depth 0 and no prevData                                            *)

FetchInputs ==
    {[maxDepth |-> m] : m \in -1..MaxDepthIn}
    \cup {[maxDepth |-> MaxDepthIn, pageno |-> p] : p \in -1..MaxPageIn}
    \cup {[printMsgs |-> b] : b \in BOOLEAN}

InitFetch ==
    /\ mode = "fetch"
    /\ fpc = "call"
    /\ qParams \in FetchInputs
    /\ searchDate = NoTarget
    /\ prevData = <<>>
    /\ depth = 0
    /\ log = <<>>
    /\ result = NoResult
    /\ bpc = "off"
    /\ units = <<>>
    /\ scrip_code = NoneVal
    /\ print_msgs = FALSE
    /\ idx = 0
    /\ current_date = 0
    /\ all_announcements = <<>>
    /\ diag = <<>>
    /\ progress = <<>>
    /\ unitLog = <<>>
    /\ defaultQ = <<>>
    /\ aliased = FALSE
    /\ calls = 0
    /\ rpc = "off"
    /\ srcRows = <<>>
    /\ outTable = <<>>
    /\ DownloadOff
    /\ NseOff
    /\ AuthOff

NextFetch ==
    \/ \E resp \in Responses : Attempt(resp)
    \/ \E why \in TransportFailures : TransportRaises(why)
    \/ TransportStalls

SpecFetch == InitFetch /\ [][NextFetch]_vars

-----------------------------------------------------------------------------
(* Properties of the single fetch, checked under SpecFetch *)

Last(s) == s[Len(s)]

Delivered(e) == e.raised # "transport"

AllSuccess == \A i \in DOMAIN log : log[i].status = "success"

FetchEnded == fpc \in {"returned", "raised"}

(* C1 as stated: the depth of every attempt, and the depth reported in the *)
(* final result, is at most maxDepth, whatever maxDepth the caller gives   *)
C1_DepthNeverExceedsAnyMaxDepth ==
    /\ \A i \in DOMAIN log : log[i].depth <= log[i].maxDepth
    /\ fpc = "returned" => result.depth <= result.maxDepth

(* C1 amended: for every maxDepth >= 0 supplied by the caller, the depth   *)
(* of every attempt and of the final result is at most maxDepth            *)
C1_DepthWithinNonNegativeMaxDepth ==
    Get(qParams, "maxDepth", DefaultMaxDepth) >= 0 =>
        /\ fpc = "call" => depth <= Get(qParams, "maxDepth", DefaultMaxDepth)
        /\ \A i \in DOMAIN log : log[i].depth <= log[i].maxDepth
        /\ fpc = "returned" => result.depth <= result.maxDepth

C1_Witness ==
    /\ fpc = "returned"
    /\ result.maxDepth = MaxDepthIn
    /\ result.depth = result.maxDepth
    /\ Len(log) = MaxDepthIn + 1

(* C2: a fetch that got a response to every transport call ends by         *)
(* returning a result, after at most maxDepth+1 calls (maxDepth being a    *)
(* bound >= 0), and the depth it reports is the number of calls minus one  *)
C2_ReturnsAfterAtMostMaxDepthPlusOneCalls ==
    (/\ FetchEnded
     /\ \A i \in DOMAIN log : Delivered(log[i])
     /\ Get(qParams, "maxDepth", DefaultMaxDepth) >= 0) =>
        /\ fpc = "returned"
        /\ Len(log) <= Get(qParams, "maxDepth", DefaultMaxDepth) + 1
        /\ result.depth = Len(log) - 1

(* C3: when every attempt of a returned fetch was classified success, the  *)
(* rows of the result are the rows of the visited pages concatenated in    *)
(* arrival order (length = sum of the page lengths, no row twice), and the *)
(* visited page numbers are consecutive from the first page                *)
C3_SuccessRowsAreConcatenationOfPages ==
    AllSuccess =>
        /\ \A i \in DOMAIN log : log[i].page = log[1].page + (i - 1)
        /\ fpc = "returned" =>
            /\ result.data = Flatten([i \in DOMAIN log |-> log[i].rows])
            /\ Len(result.data) = SumSeq([i \in DOMAIN log |-> Len(log[i].rows)])
            /\ Cardinality(Range(result.data)) = Len(result.data)

C3_Witness ==
    /\ fpc = "returned"
    /\ AllSuccess
    /\ Len(log) = 3
    /\ Len(result.data) >= 4

(* C4: a first attempt at page 1 classified success with a total page      *)
(* count <= 1 is the only transport call, and the fetch returns its rows   *)
C4_SinglePageFetchReturnsAfterOneCall ==
    (/\ log # <<>>
     /\ log[1].page = 1
     /\ log[1].status = "success"
     /\ log[1].pgsOk
     /\ log[1].totalPgs <= 1) =>
        /\ Len(log) = 1
        /\ fpc = "returned"
        /\ result.data = log[1].rows

(* C5: an attempt is success only when 'Table' is present and a list; a    *)
(* response without 'Table' or with a non-list 'Table' gives status error  *)
(* and no rows, for every HTTP status code                                 *)
C5_NonListTableIsError ==
    \A i \in DOMAIN log :
        Delivered(log[i]) =>
            /\ log[i].status = "success" => log[i].kind = "list"
            /\ log[i].kind \in {"notable", "null", "scalar", "emptyscalar"} =>
                    (log[i].status = "error" /\ log[i].rows = <<>>)

(* C6: whatever response the transport delivers, the fetch hands back a    *)
(* structured result: no exception leaves bseindia_apiScraper              *)
C6_NoExceptionForDeliveredResponse ==
    (log # <<>> /\ Delivered(Last(log))) =>
        /\ fpc # "raised"
        /\ fpc = "returned" => result.status \in {"success", "error"}

(* C7: every page request has a bounded timeout (the call never blocks     *)
(* for ever), and a request that times out ends as status error in the     *)
(* returned result instead of an exception                                 *)
C7_TimeoutBecomesErrorResult ==
    /\ fpc # "blocked"
    /\ (log # <<>> /\ Last(log).kind = "timeout") =>
            (fpc # "raised" /\ Last(log).status = "error")


(* One attempt directly follows another in the same fetch *)
Steps == {i \in DOMAIN log : i + 1 \in DOMAIN log}

(* C17 as stated: after an attempt classified error a further transport    *)
(* call is made only if the status code was not 200 and the attempt        *)
(* obtained at least one row, and that call requests page current+1        *)
C17_ErrorAdvancesOnlyWithRows ==
    \A i \in Steps :
        log[i].status = "error" =>
            /\ log[i].code # HttpOk
            /\ Len(log[i].rows) >= 1
            /\ log[i + 1].page = log[i].page + 1

(* C17 amended: after an attempt classified error a further transport call *)
(* is made only if the status code was not 200 and depth < maxDepth; that  *)
(* call requests page current+1 when the attempt obtained at least one     *)
(* row and the same page again when it obtained none                       *)
C17_ErrorRetriesSamePageWithoutRows ==
    /\ \A i \in Steps :
          log[i].status = "error" =>
              /\ log[i].code # HttpOk
              /\ log[i].depth < log[i].maxDepth
              /\ log[i + 1].page =
                    log[i].page + (IF Len(log[i].rows) >= 1 THEN 1 ELSE 0)
    /\ (fpc = "call" /\ log # <<>> /\ Last(log).status = "error") =>
          /\ Last(log).code # HttpOk
          /\ Last(log).depth < Last(log).maxDepth
          /\ Get(qParams, "pageno", DefaultPageNo) =
                Last(log).page + (IF Len(Last(log).rows) >= 1 THEN 1 ELSE 0)

(* An error attempt without rows was followed by a call for the same page, *)
(* and an error attempt with a row by a call for the next page             *)
C17_Witness ==
    /\ Len(log) = 3
    /\ log[1].status = "error" /\ log[1].rows = <<>>
    /\ log[2].page = log[1].page
    /\ log[2].status = "error" /\ log[2].rows # <<>>
    /\ log[3].page = log[2].page + 1

(* C18: after a success attempt (a list of rows with a numeric page count) *)
(* at depth < maxDepth, page current+1 is requested if and only if the     *)
(* current page is below the page count of the first row (0 without        *)
(* rows); otherwise the fetch returns                                      *)
C18_SuccessAdvancesIffBelowPageCount ==
    \A i \in DOMAIN log :
        (/\ log[i].status = "success"
         /\ log[i].kind = "list"
         /\ log[i].pgsOk
         /\ log[i].raised = "no"
         /\ log[i].depth < log[i].maxDepth) =>
            IF log[i].page < log[i].totalPgs
            THEN IF i = Len(log)
                 THEN fpc = "call"
                      /\ Get(qParams, "pageno", DefaultPageNo) = log[i].page + 1
                 ELSE log[i + 1].page = log[i].page + 1
            ELSE i = Len(log) /\ fpc = "returned"

(* C19: an attempt at depth >= maxDepth is the last one of its fetch, and  *)
(* the fetch returns the accumulated rows followed by that attempt's rows  *)
C19_AtMaxDepthReturnsAccumulatedRows ==
    \A i \in DOMAIN log :
        (log[i].depth >= log[i].maxDepth /\ Delivered(log[i])) =>
            /\ i = Len(log)
            /\ fpc = "returned"
            /\ result.data = prevData \o log[i].rows

(* C20: the page numbers of consecutive transport calls of one fetch never *)
(* decrease and grow by at most 1; the same page is requested again only   *)
(* directly after an attempt with status error, a status code other than   *)
(* 200 and no rows                                                         *)
C20_PagesGrowByAtMostOne ==
    \A i \in Steps :
        /\ log[i + 1].page - log[i].page \in {0, 1}
        /\ log[i + 1].page = log[i].page =>
              /\ log[i].status = "error"
              /\ log[i].code # HttpOk
              /\ log[i].rows = <<>>

(* A fetch that asked for the same page twice and then for the next one *)
C20_Witness ==
    /\ Len(log) = 3
    /\ log[2].page = log[1].page
    /\ log[2].status = "success"
    /\ log[3].page = log[2].page + 1

(* C21: the rows of a returned result are the rows of every attempt of the *)
(* fetch in arrival order, so the rows of the earlier attempts are a       *)
(* prefix of it whatever the last attempt was; status, URL and transport   *)
(* status of the result are those of the last attempt                      *)
C21_ResultKeepsRowsOfEarlierAttempts ==
    (mode = "fetch" /\ fpc = "returned") =>
        /\ result.data = Flatten([i \in DOMAIN log |-> log[i].rows])
        /\ SubSeq(result.data, 1, Len(prevData)) = prevData
        /\ prevData = Flatten([i \in 1..(Len(log) - 1) |-> log[i].rows])
        /\ result.status = Last(log).status
        /\ result.latest_call = Last(log).request
        /\ result.latest_rStatus = Last(log).code

(* A fetch returned after a page with rows and a last attempt classified   *)
(* error at the depth bound                                                *)
C21_Witness ==
    /\ mode = "fetch"
    /\ fpc = "returned"
    /\ Len(log) >= 2
    /\ log[1].rows # <<>>
    /\ Last(log).status = "error"
    /\ Last(log).depth = Last(log).maxDepth
    /\ Last(log).code # log[1].code

-----------------------------------------------------------------------------
(* The batch loops of bse_announcements_tab.py.  Each iteration calls      *)
(* bseindia_apiScraper with a fresh q_params mapping and the defaults      *)
(* prevData=None, depth=0.                                                 *)

ScripCodes == {"500325", "532540"}

CallFetch(sd, q) ==
    /\ fpc' = "call"
    /\ searchDate' = sd
    /\ qParams' = q
    /\ prevData' = <<>>
    /\ depth' = 0
    /\ log' = <<>>
    /\ result' = NoResult
    /\ aliased' = FALSE
    /\ UNCHANGED <<defaultQ, calls>>

(* Mutant: the loop goes on while the call of the current unit is pending *)
UnitFinished_WhilePending == bpc \in {"loop", "wait"}

(* The call on line 39 / 70 is synchronous: the loop body of the next unit *)
(* runs only when the call of the current one has come back                *)
UnitFinished == bpc = "loop"

(* scrape_company_wise, lines 36-39: progress, q_params, call *)
StartCompanyUnit ==
    /\ mode = "company"
    /\ UnitFinished
    /\ idx < Len(units)
    /\ idx' = idx + 1
    /\ progress' = Append(progress, <<idx + 1, Len(units)>>)
    /\ CallFetch(Target("int", "", DaysBack), [strScrip |-> units[idx + 1], printMsgs |-> print_msgs])
    /\ bpc' = "wait"
    /\ UNCHANGED <<mode, units, scrip_code, print_msgs, current_date,
                   all_announcements, diag, unitLog>>
    /\ UNCHANGED <<rowVars, dlVars, nseVars, authVars>>

(* scrape_day_wise, lines 63-70 *)
StartDayUnit ==
    /\ mode = "day"
    /\ UnitFinished
    /\ current_date <= units[2]
    /\ idx' = idx + 1
    /\ progress' = Append(progress, <<idx + 1, (units[2] - units[1]) + 1>>)
    /\ CallFetch(DateTarget(current_date),
                 IF Falsy(scrip_code) THEN [printMsgs |-> print_msgs]
                 ELSE [printMsgs |-> print_msgs, strScrip |-> scrip_code])
    /\ bpc' = "wait"
    /\ UNCHANGED <<mode, units, scrip_code, print_msgs, current_date,
                   all_announcements, diag, unitLog>>
    /\ UNCHANGED <<rowVars, dlVars, nseVars, authVars>>

UnitId == IF mode = "company" THEN units[idx] ELSE current_date

(* item['Search_Date'] = ..., item['Scrip_Code_Searched'] = ... *)
Tag(row) ==
    IF mode = "company"
    THEN [row |-> row, Search_Date |-> Absent, Scrip_Code_Searched |-> units[idx]]
    ELSE [row |-> row, Search_Date |-> current_date,
          Scrip_Code_Searched |-> IF Falsy(scrip_code) THEN Absent ELSE scrip_code]

(* item[...] = ... raises when the row is not a mapping *)
TagRaises(data) == \E i \in DOMAIN data : ~data[i].rec

UnitEntry(outcome) ==
    [unit |-> UnitId, outcome |-> outcome, status |-> result.status,
     data |-> result.data, calls |-> Len(log),
     cause |-> IF log = <<>> THEN "no" ELSE log[Len(log)].raised]

(* Lines 40-46 and 71-80: the fetch returned a result *)
UnitReturns ==
    /\ bpc = "wait"
    /\ fpc = "returned"
    /\ fpc' = "idle"
    /\ IF result.data # <<>>
       THEN IF TagRaises(result.data)
            THEN /\ bpc' = "raised"
                 /\ unitLog' = Append(unitLog, UnitEntry("tagraised"))
                 /\ UNCHANGED <<all_announcements, diag, current_date>>
            ELSE /\ bpc' = "loop"
                 /\ all_announcements' =
                        all_announcements \o
                        [i \in DOMAIN result.data |-> Tag(result.data[i])]
                 /\ unitLog' = Append(unitLog, UnitEntry("returned"))
                 /\ current_date' = IF mode = "day" THEN current_date + 1
                                    ELSE current_date
                 /\ UNCHANGED diag
       ELSE /\ bpc' = "loop"
            /\ diag' = IF result.status = "error" /\ print_msgs
                       THEN Append(diag, [src |-> "warning", unit |-> idx,
                                          status |-> result.status])
                       ELSE diag
            /\ unitLog' = Append(unitLog, UnitEntry("returned"))
            /\ current_date' = IF mode = "day" THEN current_date + 1
                               ELSE current_date
            /\ UNCHANGED all_announcements
    /\ UNCHANGED <<mode, qParams, searchDate, prevData, depth, log, result,
                   units, scrip_code, print_msgs, idx, progress>>
    /\ UNCHANGED <<seqVars, rowVars, dlVars, nseVars, authVars>>

(* The call on line 39 / 70 is not guarded: an exception of the fetch      *)
(* leaves the batch function                                               *)
UnitRaises ==
    /\ bpc = "wait"
    /\ fpc = "raised"
    /\ fpc' = "idle"
    /\ bpc' = "raised"
    /\ unitLog' = Append(unitLog, UnitEntry("raised"))
    /\ UNCHANGED <<mode, qParams, searchDate, prevData, depth, log, result,
                   units, scrip_code, print_msgs, idx, current_date,
                   all_announcements, diag, progress>>
    /\ UNCHANGED <<seqVars, rowVars, dlVars, nseVars, authVars>>

(* Lines 46-47 / 81-82: my_bar.empty(); return pd.DataFrame(...) *)
BatchReturns ==
    /\ bpc = "loop"
    /\ IF mode = "company" THEN idx >= Len(units) ELSE current_date > units[2]
    /\ bpc' = "done"
    /\ UNCHANGED <<mode, fetchVars, units, scrip_code, print_msgs, idx,
                   current_date, all_announcements, diag, progress, unitLog>>
    /\ UNCHANGED <<seqVars, rowVars, dlVars, nseVars, authVars>>

RECURSIVE SeqsUpTo(_, _)
SeqsUpTo(S, n) ==
    IF n = 0 THEN {<<>>}
    ELSE LET shorter == SeqsUpTo(S, n - 1)
         IN shorter \cup {Append(s, x) : s \in shorter, x \in S}

InitBatch ==
    /\ mode \in {"company", "day"}
    /\ bpc = "loop"
    /\ IF mode = "company"
       THEN /\ units \in SeqsUpTo(ScripCodes, MaxUnits)
            /\ scrip_code = NoneVal
            /\ current_date = 0
       ELSE /\ units \in {<<s, e>> : s \in 1..MaxDay, e \in 1..MaxDay}
            /\ scrip_code \in {NoneVal, "500325"}
            /\ current_date = units[1]
    /\ print_msgs \in BOOLEAN
    /\ idx = 0
    /\ all_announcements = <<>>
    /\ diag = <<>>
    /\ progress = <<>>
    /\ unitLog = <<>>
    /\ fpc = "idle"
    /\ qParams = <<>>
    /\ searchDate = NoTarget
    /\ defaultQ = <<>>
    /\ aliased = FALSE
    /\ calls = 0
    /\ rpc = "off"
    /\ srcRows = <<>>
    /\ outTable = <<>>
    /\ prevData = <<>>
    /\ depth = 0
    /\ log = <<>>
    /\ result = NoResult
    /\ DownloadOff
    /\ NseOff
    /\ AuthOff

NextBatch ==
    \/ StartCompanyUnit
    \/ StartDayUnit
    \/ \E resp \in BatchResponses : Attempt(resp)
    \/ \E why \in TransportFailures : TransportRaises(why)
    \/ TransportStalls
    \/ UnitReturns
    \/ UnitRaises
    \/ BatchReturns

SpecBatch == InitBatch /\ [][NextBatch]_vars

-----------------------------------------------------------------------------
(* Properties of the batch loops, checked under SpecBatch *)

CollectedRows == [j \in DOMAIN all_announcements |-> all_announcements[j].row]

RowsOfSucceededUnits ==
    Flatten([i \in DOMAIN unitLog |->
                IF unitLog[i].status = "success" THEN unitLog[i].data ELSE <<>>])

(* C8: scrape_company_wise runs one fetch per identifier in list order,    *)
(* tags every row with the identifier that produced it and concatenates in *)
(* list order; a fetch that ends in error does not stop the batch, adds no *)
(* rows, and leaves a diagnostic whatever the message flag is              *)
C8_CompanyBatchIsolatesAndReportsErrors ==
    mode = "company" =>
        /\ \A i \in DOMAIN unitLog : unitLog[i].unit = units[i]
        /\ bpc = "done" => Len(unitLog) = Len(units)
        /\ \A j \in DOMAIN all_announcements :
              all_announcements[j].Scrip_Code_Searched =
                  units[all_announcements[j].row.unit]
        /\ CollectedRows = RowsOfSucceededUnits
        /\ \A i \in DOMAIN unitLog :
              unitLog[i].status = "error" =>
                  /\ unitLog[i].outcome = "returned"
                  /\ \E d \in Range(diag) : d.unit = i /\ d.status = "error"

(* C9: when requests.get raises for one unit, the batch is not aborted:    *)
(* the rows of the earlier units stay in the result and the loop goes on   *)
C9_UnreachableTransportDoesNotAbortBatch ==
    \A i \in DOMAIN unitLog :
        unitLog[i].cause = "transport" => bpc \in {"loop", "wait", "done"}

(* C10: scrape_day_wise runs one fetch per day of [start, end] in          *)
(* chronological order (none when start > end), tags each row with the     *)
(* Search_Date of its unit, concatenates in unit order, and a unit whose    *)
(* fetch fails adds no rows while the rows of the other days still appear  *)
C10_DayBatchOneUnitPerDayFailuresAddNoRows ==
    mode = "day" =>
        /\ \A i \in DOMAIN unitLog : unitLog[i].unit = units[1] + (i - 1)
        /\ bpc = "done" =>
              Len(unitLog) = (IF units[1] <= units[2]
                              THEN (units[2] - units[1]) + 1 ELSE 0)
        /\ \A j \in DOMAIN all_announcements :
              all_announcements[j].Search_Date =
                  units[1] + (all_announcements[j].row.unit - 1)
        /\ CollectedRows = RowsOfSucceededUnits
        /\ bpc # "raised"

(* C12: when a single instrument is asked for (every unit of the company   *)
(* batch; the day batch with a scrip code), every collected row is about   *)
(* that instrument (the identifiers are numeric codes, so folding case     *)
(* changes nothing), and a unit whose rows are all about other instruments *)
(* adds no row and leaves a diagnostic.                                    *)
C12_FilteredBatchHoldsOnlyRequestedInstrument ==
    (mode = "company" \/ (mode = "day" /\ ~Falsy(scrip_code))) =>
        /\ \A j \in DOMAIN all_announcements :
              all_announcements[j].row.scrip =
                  all_announcements[j].Scrip_Code_Searched
        /\ \A i \in DOMAIN unitLog :
              (/\ unitLog[i].outcome = "returned"
               /\ unitLog[i].data # <<>>
               /\ \A k \in DOMAIN unitLog[i].data :
                     unitLog[i].data[k].scrip = OtherScrip)
                  => \E d \in Range(diag) : d.unit = i

Pending == fpc \in {"call", "blocked"}

(* C23: at most one transport call is pending; it is the call that follows *)
(* the responses received and classified so far in its fetch, and in a     *)
(* batch it belongs to the one unit in progress, every earlier unit having *)
(* ended before its first request was issued                               *)
C23_OneCallPendingAfterEarlierOnesEnded ==
    mode \in {"company", "day"} =>
        /\ \A i \in DOMAIN log : log[i].depth = i - 1
        /\ Pending => (depth = Len(log) /\ bpc = "wait")
        /\ bpc = "wait" => Len(unitLog) = idx - 1
        /\ bpc = "loop" => (~Pending /\ Len(unitLog) = idx)
        /\ \A i \in DOMAIN unitLog :
              /\ unitLog[i].calls >= 1
              /\ unitLog[i].outcome \in {"returned", "raised", "tagraised"}

(* The second unit's request for a second page is pending; the first unit  *)
(* ended after two calls                                                   *)
C23_Witness ==
    /\ mode \in {"company", "day"}
    /\ fpc = "call"
    /\ depth = 1
    /\ idx = 2
    /\ Len(unitLog) = 1
    /\ unitLog[1].calls = 2

(* C24: the progress report of unit k is made after the fetch of unit k    *)
(* has ended; the k-th report is k of the total number of units, and the   *)
(* last report of a batch that has ended is total of total                 *)
C24_ProgressReportedAfterUnitCompleted ==
    mode \in {"company", "day"} =>
        /\ \A k \in DOMAIN progress :
              /\ progress[k][1] = k
              /\ k <= Len(unitLog)
        /\ (bpc = "done" /\ progress # <<>>) =>
              Last(progress)[1] = Last(progress)[2]

-----------------------------------------------------------------------------
(* Fetches made one after the other in one process:                        *)
(* bseindia_apiScraper(searchDate) or bseindia_apiScraper(searchDate, q).  *)
(* A call without a mapping binds qParams to the function's default        *)
(* object (line 5: qParams={}), which lines 23-24 and 71 write into.       *)

MaxWindow == 2
MaxFetches == 2

CallTargets ==
    {NoTarget, Target("int", "", 0), Target("int", "", -1),
     Target("text", "", 0), Target("ymd", "", 20240229),
     Target("ymd", "", 20240231)}
    \cup {DateTarget(d) : d \in {Today, DaysFromCivil(2023, 12, 31)}}
    \cup {Target("token", t, 0) : t \in DOMAIN DaysDict}
    \cup {Target("int", "", n) : n \in 1..MaxWindow}

CallMappings ==
    {<<>>, [pageno |-> 2], [maxDepth |-> 0],
     [strPrevDate |-> 20230101, strToDate |-> 20230131],
     [pageno |-> 2, strCat |-> 3, strPrevDate |-> 20230101,
      strScrip |-> "500325", strSearch |-> "A", strToDate |-> 20230131,
      strType |-> "E"]}

CallResponses ==
    {Resp(HttpOk, "list", 1, "record", 1), Resp(HttpOk, "list", 1, "record", 2),
     Resp(500, "notjson", 0, "record", 0)}

(* The next fetch of the process, after the previous one returned or raised *)
CallAgain ==
    /\ mode = "calls"
    /\ fpc \in {"returned", "raised"}
    /\ calls < MaxFetches
    /\ calls' = calls + 1
    /\ fpc' = "call"
    /\ searchDate' \in {DateTarget(Today), Target("token", "week", 0),
                        Target("ymd", "", 20240229)}
    /\ \/ aliased' = TRUE /\ qParams' = defaultQ
       \/ aliased' = FALSE /\ qParams' \in {<<>>, [pageno |-> 2]}
    /\ prevData' = <<>>
    /\ depth' = 0
    /\ log' = <<>>
    /\ result' = NoResult
    /\ UNCHANGED <<mode, defaultQ, diag>>
    /\ UNCHANGED batchVars
    /\ UNCHANGED <<rowVars, dlVars, nseVars, authVars>>

InitCalls ==
    /\ mode = "calls"
    /\ fpc = "call"
    /\ searchDate \in CallTargets
    /\ defaultQ = <<>>
    /\ aliased \in BOOLEAN
    /\ qParams \in (IF aliased THEN {defaultQ} ELSE CallMappings)
    /\ calls = 1
    /\ prevData = <<>>
    /\ depth = 0
    /\ log = <<>>
    /\ result = NoResult
    /\ bpc = "off"
    /\ units = <<>>
    /\ scrip_code = NoneVal
    /\ print_msgs = FALSE
    /\ idx = 0
    /\ current_date = 0
    /\ all_announcements = <<>>
    /\ diag = <<>>
    /\ progress = <<>>
    /\ unitLog = <<>>
    /\ rpc = "off"
    /\ srcRows = <<>>
    /\ outTable = <<>>
    /\ DownloadOff
    /\ NseOff
    /\ AuthOff

NextCalls ==
    \/ \E resp \in CallResponses : Attempt(resp)
    \/ \E why \in TransportFailures : TransportRaises(why)
    \/ TransportStalls
    \/ CallAgain

SpecCalls == InitCalls /\ [][NextCalls]_vars

-----------------------------------------------------------------------------
(* Claims about the request of a fetch *)

DateKeys == {"strPrevDate", "strToDate"}

(* C14: whatever the target, a query parameter the caller supplies in the  *)
(* mapping is carried by the request as supplied, and a parameter the      *)
(* caller does not supply has its default (for the two date bounds the     *)
(* default is the bound the target resolves to, see C15)                   *)
C14_CallerValuesWinForEveryTarget ==
    (mode = "calls" /\ ~aliased /\ log # <<>>) =>
        \A k \in QueryKeys :
            IF k \in DOMAIN log[1].given
            THEN log[1].request[k] = log[1].given[k]
            ELSE k \notin DateKeys => log[1].request[k] = QDefaults(0)[k]

(* The days a target asks to look back: <<N>> for a token or a positive    *)
(* integer, <<>> otherwise                                                 *)
ClaimedWindow(t) ==
    IF t.kind = "token"
    THEN CASE t.tok = "day" -> <<1>>
           [] t.tok = "week" -> <<7>>
           [] t.tok = "month" -> <<30>>
           [] t.tok = "year" -> <<365>>
           [] OTHER -> <<>>
    ELSE IF t.kind = "int" /\ t.v > 0 THEN <<t.v>> ELSE <<>>

(* The bounds the claim gives for a target: <<from, to>>, or <<>> when the *)
(* claim says nothing about the target                                     *)
ClaimedBounds(t) ==
    IF ClaimedWindow(t) # <<>>
    THEN <<IsoDigits(Today - ClaimedWindow(t)[1]), IsoDigits(Today)>>
    ELSE IF t.kind = "date" THEN <<IsoDigits(t.v), IsoDigits(t.v)>>
    ELSE IF t.kind = "ymd" /\ FromDigits(t.v) # <<>> THEN <<t.v, t.v>>
    ELSE <<>>

(* The eight digits of a calendar date with a four-digit year *)
IsEightDigitDate(x) == x >= 10000101 /\ x <= 99991231 /\ FromDigits(x) # <<>>

(* C15: for a fetch whose mapping holds no date bound, the tokens          *)
(* day/week/month/year look back 1/7/30/365 days; a window of N days gives *)
(* from = today - N and to = today; a concrete date gives from = to = that *)
(* date; every bound sent is an 8-digit date; cleaning an 8-digit date     *)
(* gives it back, and every attempt of the fetch sends the same bounds     *)
C15_TargetResolvesToEightDigitBounds ==
    (mode = "calls" /\ log # <<>> /\ DateKeys \cap DOMAIN log[1].given = {}) =>
        /\ ClaimedBounds(log[1].target) # <<>> =>
              /\ log[1].request.strPrevDate = ClaimedBounds(log[1].target)[1]
              /\ log[1].request.strToDate = ClaimedBounds(log[1].target)[2]
        /\ \A i \in DOMAIN log : \A k \in DateKeys :
              /\ IsEightDigitDate(log[i].request[k])
              /\ CleanDate(Target("ymd", "", log[i].request[k])) = log[i].request[k]
              /\ log[i].request[k] = log[1].request[k]

(* A fetch for the last week asked for its second page with the bounds     *)
(* 26 December 2023 to 2 January 2024                                      *)
C15_Witness ==
    /\ mode = "calls"
    /\ Len(log) = 2
    /\ log[1].target = Target("token", "week", 0)
    /\ DateKeys \cap DOMAIN log[1].given = {}
    /\ log[2].page = 2
    /\ log[2].request.strPrevDate = 20231226
    /\ log[2].request.strToDate = 20240102

(* C16: a fetch called without a mapping sends as its first request the    *)
(* request of an empty mapping for its own target (page 1, bounds of the   *)
(* target), whatever fetches ran before it, and a fetch that has ended     *)
(* leaves nothing in the state a later fetch starts from                   *)
C16_FetchStartsFromFreshRequestState ==
    mode = "calls" =>
        /\ (aliased /\ log # <<>>) =>
              log[1].request = RequestOf(<<>>, log[1].target)
        /\ fpc \in {"returned", "raised"} => defaultQ = <<>>

-----------------------------------------------------------------------------
(* The announcement table handed to the presentation layer.                 *)
(*   BSE: scrape_day_wise tags the rows of the API and wraps them in a      *)
(*        DataFrame; render_bse_announcements_tab derives 'View Report'.    *)
(*   NSE: scrape_nse_announcements_robust builds one mapping per table row  *)
(*        of the page.                                                      *)

NaN == "NaN"            \* pandas' missing value (NaN / NaT)

(* pd.DataFrame(list of mappings): the columns are the union of the keys,  *)
(* a key a row lacks is NaN                                                *)
DataFrame(rws) ==
    LET cols == UNION {DOMAIN rws[i] : i \in DOMAIN rws}
    IN [i \in DOMAIN rws |->
          [c \in cols |-> IF c \in DOMAIN rws[i] THEN rws[i][c] ELSE NaN]]

Columns(df) == IF df = <<>> THEN {} ELSE DOMAIN df[1]

(* pd.notna *)
NotNa(v) == v \notin {NaN, NoneVal}

(* The timestamps the API reports, and the dates pd.to_datetime reads *)
TimestampDay ==
    [t \in {"2024-01-02T10:15:00", "2023-12-31T18:30:00", "2023-12-30T09:00:00"} |->
        CASE t = "2024-01-02T10:15:00" -> DaysFromCivil(2024, 1, 2)
          [] t = "2023-12-31T18:30:00" -> DaysFromCivil(2023, 12, 31)
          [] t = "2023-12-30T09:00:00" -> DaysFromCivil(2023, 12, 30)]

(* pd.to_datetime(..., errors='coerce').dt.date: <<day>>, or <<>> for NaT *)
ToDate(v) == IF v \in DOMAIN TimestampDay THEN <<TimestampDay[v]>> ELSE <<>>

BseTimestamps == DOMAIN TimestampDay \cup {"not a date"}

(* The rows of the API: SCRIP_CD and HEADLINE always, the others optional *)
BseSourceRows ==
    {[f \in {"SCRIP_CD", "HEADLINE"} \cup opt |->
        CASE f = "SCRIP_CD" -> "500325"
          [] f = "HEADLINE" -> "Board Meeting"
          [] f = "SLONGNAME" -> "Reliance Industries Ltd"
          [] f = "ATTACHMENTNAME" -> a
          [] f = "News_submission_dt" -> t] :
        opt \in SUBSET {"SLONGNAME", "ATTACHMENTNAME", "News_submission_dt"},
        a \in {NoneVal, "", "a.pdf"}, t \in BseTimestamps}

(* scrape_day_wise lines 72-76: the row is tagged in place, nothing else *)
TagDayRow(row, day, scrip) ==
    LET r1 == Put(row, "Search_Date", day)
    IN IF Falsy(scrip) THEN r1 ELSE Put(r1, "Scrip_Code_Searched", scrip)

SearchDay == "2024-01-02"

(* Lines 71-76 and 82 for the rows of one day *)
BuildBseTable ==
    /\ mode = "bse_table"
    /\ rpc = "rows"
    /\ rpc' = "table"
    /\ outTable' = DataFrame([i \in DOMAIN srcRows |->
                                TagDayRow(srcRows[i], SearchDay, scrip_code)])
    /\ UNCHANGED <<mode, fetchVars, bpc, units, scrip_code, print_msgs, idx,
                   current_date, all_announcements, diag, progress, unitLog,
                   seqVars, srcRows, dlVars, nseVars, authVars>>

LiveDays == 2

NoUrl == [path |-> "none", name |-> ""]

(* get_attachment_url, lines 153-159 *)
GetAttachmentUrl(row, today) ==
    IF NotNa(row["ATTACHMENTNAME"])
    THEN IF ToDate(row["News_submission_dt"]) # <<>>
            /\ ToDate(row["News_submission_dt"])[1] >= today - LiveDays
         THEN [path |-> "AttachLive", name |-> row["ATTACHMENTNAME"]]
         ELSE [path |-> "AttachHis", name |-> row["ATTACHMENTNAME"]]
    ELSE NoUrl

(* Lines 141-164: nothing for an empty table; KeyError when a column the   *)
(* code indexes is missing from every row                                  *)
RenderBseTable ==
    /\ mode = "bse_table"
    /\ rpc = "table"
    /\ IF outTable = <<>>
       THEN rpc' = "done" /\ UNCHANGED outTable
       ELSE IF {"News_submission_dt", "ATTACHMENTNAME"} \subseteq Columns(outTable)
       THEN /\ rpc' = "done"
            /\ outTable' = [i \in DOMAIN outTable |->
                              [c \in Columns(outTable) \cup {"View Report"} |->
                                 IF c = "View Report"
                                 THEN GetAttachmentUrl(outTable[i], Today)
                                 ELSE outTable[i][c]]]
       ELSE rpc' = "raised" /\ UNCHANGED outTable
    /\ UNCHANGED <<mode, fetchVars, bpc, units, scrip_code, print_msgs, idx,
                   current_date, all_announcements, diag, progress, unitLog,
                   seqVars, srcRows, dlVars, nseVars, authVars>>

(* The rows of the NSE page: number of cells, the text of the subject      *)
(* cell, what cells[4] holds, the text of the date cell                    *)
NseSourceRows ==
    [ncells : {6, 7}, subject : {"", "-", "Financial Results"},
     link : {"none", "href", "nohref"}, date : {"", "02-Jan-2024 10:15:00"},
     loading : BOOLEAN]

(* webscraper.py lines 143-161: element.get_attribute("href") is None      *)
(* when the anchor has no href                                             *)
NseAnnouncement(r) ==
    [f \in {"Symbol", "Company Name", "Subject", "Details", "Attachment Link",
            "Broadcast Date"} |->
        CASE f = "Symbol" -> "AXISBANK"
          [] f = "Company Name" -> "Axis Bank Limited"
          [] f = "Subject" -> r.subject
          [] f = "Details" -> "details"
          [] f = "Attachment Link" ->
                IF r.link = "href" THEN "https://nsearchives/a.pdf"
                ELSE IF r.link = "nohref" THEN NoneVal ELSE ""
          [] f = "Broadcast Date" -> r.date]

(* Lines 136-141 and 164: which rows of the page become announcements *)
NseKeeps(r) ==
    /\ r.ncells >= 7
    /\ ~r.loading
    /\ r.subject # ""
    /\ r.subject # "-"

(* One extraction pass over the page without a limit, then line 186 *)
BuildNseTable ==
    /\ mode = "nse_table"
    /\ rpc = "rows"
    /\ rpc' = "done"
    /\ outTable' = LET kept == SelectSeq(srcRows, NseKeeps)
                   IN DataFrame([i \in DOMAIN kept |-> NseAnnouncement(kept[i])])
    /\ UNCHANGED <<mode, fetchVars, bpc, units, scrip_code, print_msgs, idx,
                   current_date, all_announcements, diag, progress, unitLog,
                   seqVars, srcRows, dlVars, nseVars, authVars>>

MaxTableRows == 2

InitRows ==
    /\ mode \in {"bse_table", "nse_table"}
    /\ rpc = "rows"
    /\ IF mode = "bse_table"
       THEN /\ srcRows \in SeqsUpTo(BseSourceRows, MaxTableRows)
            /\ scrip_code \in {NoneVal, "500325"}
       ELSE /\ srcRows \in SeqsUpTo(NseSourceRows, 1)
            /\ scrip_code = NoneVal
    /\ outTable = <<>>
    /\ fpc = "idle"
    /\ qParams = <<>>
    /\ searchDate = NoTarget
    /\ prevData = <<>>
    /\ depth = 0
    /\ log = <<>>
    /\ result = NoResult
    /\ bpc = "off"
    /\ units = <<>>
    /\ print_msgs = FALSE
    /\ idx = 0
    /\ current_date = 0
    /\ all_announcements = <<>>
    /\ diag = <<>>
    /\ progress = <<>>
    /\ unitLog = <<>>
    /\ defaultQ = <<>>
    /\ aliased = FALSE
    /\ calls = 0
    /\ DownloadOff
    /\ NseOff
    /\ AuthOff

NextRows ==
    \/ BuildBseTable
    \/ RenderBseTable
    \/ BuildNseTable

SpecRows == InitRows /\ [][NextRows]_vars

-----------------------------------------------------------------------------
(* Claims about the announcement table *)

(* The columns that carry the canonical fields on each path *)
CanonicalColumns ==
    IF mode = "bse_table"
    THEN {"SCRIP_CD", "SLONGNAME", "HEADLINE", "ATTACHMENTNAME",
          "News_submission_dt", "Search_Date"}
    ELSE {"Symbol", "Company Name", "Subject", "Details", "Attachment Link",
          "Broadcast Date"}

TableBuilt == mode \in {"bse_table", "nse_table"} /\ rpc \in {"table", "done"}

(* C11: every row handed to the caller carries every canonical field, and  *)
(* a field the source row lacks is the empty string, never absent, never   *)
(* null (None or NaN).                                                     *)
C11_RowsCarryEveryCanonicalField ==
    TableBuilt =>
        \A i \in DOMAIN outTable : \A c \in CanonicalColumns :
            /\ c \in DOMAIN outTable[i]
            /\ NotNa(outTable[i][c])
            /\ (mode = "bse_table" /\ c # "Search_Date" /\ c \notin DOMAIN srcRows[i])
                  => outTable[i][c] = ""

HasFileName(row) ==
    /\ "ATTACHMENTNAME" \in DOMAIN row
    /\ row["ATTACHMENTNAME"] \notin {NoneVal, NaN, ""}

IsRecent(row) ==
    /\ "News_submission_dt" \in DOMAIN row
    /\ ToDate(row["News_submission_dt"]) # <<>>
    /\ ToDate(row["News_submission_dt"])[1] >= Today - LiveDays

(* C13: in the rendered table a row with a filename and a timestamp not    *)
(* older than two days before today has the live URL, a row with a         *)
(* filename and an older or unparsable timestamp has the archive URL, and  *)
(* a row whose filename is absent or empty has no URL.                     *)
C13_AttachmentUrlFollowsAgeAndFileName ==
    (mode = "bse_table" /\ rpc = "done") =>
        \A i \in DOMAIN outTable :
            outTable[i]["View Report"] =
                IF ~HasFileName(srcRows[i]) THEN NoUrl
                ELSE IF IsRecent(srcRows[i])
                     THEN [path |-> "AttachLive", name |-> srcRows[i]["ATTACHMENTNAME"]]
                     ELSE [path |-> "AttachHis", name |-> srcRows[i]["ATTACHMENTNAME"]]

-----------------------------------------------------------------------------
(* The parts of the earlier sections a specification does not run *)
FetchOff ==
    /\ fpc = "idle"
    /\ qParams = <<>>
    /\ searchDate = NoTarget
    /\ prevData = <<>>
    /\ depth = 0
    /\ log = <<>>
    /\ result = NoResult
    /\ diag = <<>>
    /\ defaultQ = <<>>
    /\ aliased = FALSE
    /\ calls = 0

BatchOff ==
    /\ bpc = "off"
    /\ units = <<>>
    /\ scrip_code = NoneVal
    /\ print_msgs = FALSE
    /\ idx = 0
    /\ current_date = 0
    /\ all_announcements = <<>>
    /\ progress = <<>>
    /\ unitLog = <<>>

RowsOff == rpc = "off" /\ srcRows = <<>> /\ outTable = <<>>

-----------------------------------------------------------------------------
(* The bhavcopy downloads: download_and_process_bhavcopy ("cm",            *)
(* stock_comparison_tab.py) and download_and_process_fo_bhavcopy ("fo",    *)
(* new_functionality_tab.py).  Both have the same shape.                   *)

MaxDownloads == 2

RequiredColumns(fn) ==
    IF fn = "cm"
    THEN {"TradDt", "SctySrs", "FinInstrmNm", "ClsPric", "TckrSymb", "TtlTradgVol"}
    ELSE {"TckrSymb", "XpryDt", "StrkPric", "OptnTp", "FinInstrmNm", "ClsPric",
          "PrvsClsgPric", "UndrlygPric", "SttlmPric", "OpnIntrst",
          "ChngInOpnIntrst", "FinInstrmTp"}

(* What the transport and the server do for one request.  names are the    *)
(* members of the archive, as <<stem, extension>>                          *)
DlResp(t, c, z, n, r, cols) ==
    [transport |-> t, code |-> c, zip |-> z, names |-> n, readable |-> r,
     columns |-> cols]

DlResponses(fn) ==
    {DlResp("neterror", 0, FALSE, {}, FALSE, {})}
    \cup {DlResp("http", c, FALSE, {}, FALSE, {}) : c \in {404, 500}}
    \cup {DlResp("http", HttpOk, FALSE, {}, FALSE, {})}
    \cup {DlResp("http", HttpOk, TRUE, n, FALSE, {}) :
            n \in {{}, {<<"readme", "txt">>, <<"BHAV", "CSV">>}}}
    \cup {DlResp("http", HttpOk, TRUE, {<<"bhav", "csv">>}, FALSE, {})}
    \cup {DlResp("http", HttpOk, TRUE, {<<"readme", "txt">>, <<"bhav", "csv">>},
                 TRUE, RequiredColumns(fn) \ missing) :
            missing \in {{}, {"ClsPric"}, {"TckrSymb", "FinInstrmNm"}}}

(* name.endswith('.csv') *)
EndsWithCsv(name) == name[2] = "csv"

(* The path through the try block (lines 36-81 / 41-106) *)
ExitPath(fn, r) ==
    IF r.transport = "neterror" THEN "network_error"
    ELSE IF RaisesForStatus(r.code) THEN "http_error"
    ELSE IF ~r.zip THEN "bad_zip"
    ELSE IF ~\E n \in r.names : EndsWithCsv(n) THEN "no_csv"
    ELSE IF ~r.readable THEN "unexpected_error"
    ELSE IF ~(RequiredColumns(fn) \subseteq r.columns) THEN "missing_columns"
    ELSE "success"

(* time.sleep(POLITE_DELAY) calls on the path: the success path and the    *)
(* four except clauses reach one, the two early 'return None' do not       *)
Sleeps(path) == IF path \in {"no_csv", "missing_columns"} THEN 0 ELSE 1

(* st.info and requests.get(url, headers=HEADERS, timeout=30) *)
DlRequest ==
    /\ mode = "download"
    /\ dpc = "idle"
    /\ Len(dlLog) < MaxDownloads
    /\ \E fn \in {"cm", "fo"} : \E r \in DlResponses(fn) :
          dlCur' = [fn |-> fn, resp |-> r]
    /\ dpc' = "responded"
    /\ UNCHANGED <<mode, fetchVars, diag, batchVars, seqVars, rowVars, dlLog,
                   nseVars, authVars>>

(* Everything after the response, up to the return *)
DlFinish ==
    /\ mode = "download"
    /\ dpc = "responded"
    /\ LET path == ExitPath(dlCur.fn, dlCur.resp)
       IN dlLog' = Append(dlLog,
                     [fn |-> dlCur.fn, path |-> path, requested |-> TRUE,
                      slept |-> Sleeps(path),
                      value |-> IF path = "success" THEN "DataFrame" ELSE NoneVal])
    /\ dpc' = "idle"
    /\ dlCur' = <<>>
    /\ UNCHANGED <<mode, fetchVars, diag, batchVars, seqVars, rowVars,
                   nseVars, authVars>>

InitDownload ==
    /\ mode = "download"
    /\ dpc = "idle"
    /\ dlCur = <<>>
    /\ dlLog = <<>>
    /\ FetchOff
    /\ BatchOff
    /\ RowsOff
    /\ NseOff
    /\ AuthOff

NextDownload ==
    \/ DlRequest
    \/ DlFinish

SpecDownload == InitDownload /\ [][NextDownload]_vars

(* C25: every download that issued a request slept the polite delay before *)
(* it returned, whatever the path: success, HTTP error, network error, bad *)
(* ZIP, ZIP without a CSV member, missing required column                  *)
C25_EveryDownloadSleepsBeforeReturning ==
    mode = "download" =>
        \A i \in DOMAIN dlLog : dlLog[i].requested => dlLog[i].slept >= 1

-----------------------------------------------------------------------------
(* scrape_nse_announcements_robust(symbol, limit) and its caller           *)
(* get_nse_announcements_for_symbol.  srcRows are the rows of the table on *)
(* the page, outTable the DataFrame the scraper returns.                   *)

MaxNseRows == 2
MaxLimit == 3
max_retries == 3

(* The rows a page is built from in this section *)
NsePageRows ==
    {r \in NseSourceRows :
        /\ r.ncells = 7
        /\ r.link = "href"
        /\ r.date # ""
        /\ ~r.loading
        /\ r.subject # ""}

(* if limit and ...: None and 0 are falsy *)
LimitGiven(lim) == lim # <<>> /\ lim[1] # 0

(* Mutant: the limit is never found reached *)
LimitReached_Never(anns, lim) == FALSE

(* Line 167 *)
LimitReached(anns, lim) == LimitGiven(lim) /\ Len(anns) >= lim[1]

(* Line 178: the retry loop is left *)
PassSucceeded(anns, lim) ==
    anns # <<>> /\ (lim = <<>> \/ Len(anns) >= lim[1])

(* Lines 126-176 from row i on: a row in stale raises and is skipped; a    *)
(* kept row is appended, stamped with its index on the page and the pass   *)
RECURSIVE ExtractRows(_, _, _, _, _, _)
ExtractRows(anns, rows, i, stale, lim, pass) ==
    IF i > Len(rows) THEN anns
    ELSE IF i \in stale \/ ~NseKeeps(rows[i])
    THEN ExtractRows(anns, rows, i + 1, stale, lim, pass)
    ELSE LET more == Append(anns, [row |-> i, pass |-> pass,
                                   ann |-> NseAnnouncement(rows[i])])
         IN IF LimitReached(more, lim) THEN more
            ELSE ExtractRows(more, rows, i + 1, stale, lim, pass)

(* Line 70: webdriver.Chrome(...) starts the browser, or raises *)
CreateDriver ==
    /\ mode = "nse"
    /\ npc = "start"
    /\ \/ npc' = "created" /\ driver' = "open"
       \/ npc' = "raised" /\ UNCHANGED driver
    /\ UNCHANGED <<mode, fetchVars, diag, batchVars, seqVars, rowVars, dlVars,
                   retry, announcements, limit, wpc, wargs, authVars>>

(* Line 71: driver.execute_script(...), before the try statement *)
HideWebdriver ==
    /\ mode = "nse"
    /\ npc = "created"
    /\ npc' \in {"session", "raised"}
    /\ UNCHANGED <<mode, fetchVars, diag, batchVars, seqVars, rowVars, dlVars,
                   driver, retry, announcements, limit, wpc, wargs, authVars>>

(* Lines 73-119: the pages are loaded; an exception goes to lines 202-207 *)
OpenSession ==
    /\ mode = "nse"
    /\ npc = "session"
    /\ \/ /\ npc' = "extract"
          /\ UNCHANGED <<driver, outTable>>
       \/ /\ npc' = "returned"
          /\ outTable' = DataFrame(<<>>)
          /\ driver' = "quit"
    /\ UNCHANGED <<mode, fetchVars, diag, batchVars, seqVars, rpc, srcRows,
                   dlVars, retry, announcements, limit, wpc, wargs, authVars>>

(* Lines 121-183: one pass of the retry loop *)
ExtractPass ==
    /\ mode = "nse"
    /\ npc = "extract"
    /\ retry < max_retries
    /\ retry' = retry + 1
    /\ \/ /\ UNCHANGED announcements
          /\ npc' = IF retry' = max_retries THEN "collected" ELSE "extract"
       \/ \E stale \in SUBSET DOMAIN srcRows :
            /\ announcements' =
                  ExtractRows(announcements, srcRows, 1, stale, limit, retry')
            /\ npc' = IF PassSucceeded(announcements', limit)
                         \/ retry' = max_retries
                      THEN "collected" ELSE "extract"
    /\ UNCHANGED <<mode, fetchVars, diag, batchVars, seqVars, rowVars, dlVars,
                   driver, limit, wpc, wargs, authVars>>

(* Lines 186-200 and 206-207 *)
ReturnTable ==
    /\ mode = "nse"
    /\ npc = "collected"
    /\ npc' = "returned"
    /\ outTable' = DataFrame([i \in DOMAIN announcements |-> announcements[i].ann])
    /\ driver' = "quit"
    /\ UNCHANGED <<mode, fetchVars, diag, batchVars, seqVars, rpc, srcRows,
                   dlVars, retry, announcements, limit, wpc, wargs, authVars>>

(* The parameters of scrape_nse_announcements_robust (line 55) and the     *)
(* keywords get_nse_announcements_for_symbol passes (line 32)              *)
ScraperParams == {"symbol", "limit"}
WrapperKeywords == {"from_date", "to_date", "limit"}

(* Lines 23-32: the call binds its arguments or raises TypeError *)
CallScraper ==
    /\ mode = "nse"
    /\ wpc = "start"
    /\ IF WrapperKeywords \subseteq ScraperParams
       THEN wpc' = "scraping" /\ npc' = "start"
       ELSE wpc' = "raised" /\ UNCHANGED npc
    /\ UNCHANGED <<mode, fetchVars, diag, batchVars, seqVars, rowVars, dlVars,
                   driver, retry, announcements, limit, wargs, authVars>>

NseSymbols == {NoneVal, "AXISBANK"}

InitNse ==
    /\ mode = "nse"
    /\ limit \in {<<>>} \cup {<<n>> : n \in -1..MaxLimit}
    /\ srcRows \in SeqsUpTo(NsePageRows, MaxNseRows)
    /\ \/ /\ wpc = "off"
          /\ wargs = <<>>
          /\ npc = "start"
       \/ /\ wpc = "start"
          /\ wargs \in [symbol : NseSymbols,
                        start_date : {NoneVal, "2023-12-26"},
                        end_date : {NoneVal, "2024-01-02"}]
          /\ npc = "off"
    /\ driver = "none"
    /\ retry = 0
    /\ announcements = <<>>
    /\ rpc = "off"
    /\ outTable = <<>>
    /\ FetchOff
    /\ BatchOff
    /\ DownloadOff
    /\ AuthOff

NextNse ==
    \/ CreateDriver
    \/ HideWebdriver
    \/ OpenSession
    \/ ExtractPass
    \/ ReturnTable
    \/ CallScraper

SpecNse == InitNse /\ [][NextNse]_vars

(* C26: no row of the page is appended to the result more than once,       *)
(* whatever the limit and the number of passes                             *)
C26_NoPageRowAppendedTwice ==
    mode = "nse" =>
        \A i, j \in DOMAIN announcements :
            announcements[i].row = announcements[j].row => i = j

(* The entries appended before pass k *)
Before(k) == {i \in DOMAIN announcements : announcements[i].pass < k}

(* C27: at most 3 passes are made; with a positive limit L the list, and   *)
(* the returned table, never has more than L rows; pass k > 1 is made only *)
(* when the passes before it left no announcement, or fewer than L         *)
C27_AtMostThreePassesAndAtMostLimitRows ==
    mode = "nse" =>
        /\ retry <= 3
        /\ (limit # <<>> /\ limit[1] > 0) =>
              /\ Len(announcements) <= limit[1]
              /\ npc = "returned" => Len(outTable) <= limit[1]
        /\ \A k \in 2..retry :
              \/ Before(k) = {}
              \/ limit # <<>> /\ limit[1] > 0 /\ Cardinality(Before(k)) < limit[1]

(* A call with a limit returned after more than one pass with exactly      *)
(* limit rows                                                              *)
C27_Witness ==
    /\ mode = "nse"
    /\ npc = "returned"
    /\ retry >= 2
    /\ limit # <<>>
    /\ limit[1] >= 2
    /\ Len(outTable) = limit[1]

(* C28: a call that created a browser session and has ended, by returning *)
(* or by raising, has closed the session                                   *)
C28_SessionClosedOnEveryExit ==
    (mode = "nse" /\ npc \in {"returned", "raised"}) => driver # "open"

(* C29: get_nse_announcements_for_symbol completes its call to the scraper *)
(* and returns a table; it never raises                                    *)
C29_WrapperCompletesScraperCall ==
    mode = "nse" => wpc # "raised"

-----------------------------------------------------------------------------
(* The authentication gate: one action per script run of app.py.  A run is *)
(* triggered by loading the page, by a button of the previous run's view,  *)
(* or by st.rerun().                                                       *)

MaxRuns == 6

Usernames == {"", "admin", "Admin"}
Passwords == {"", "secret", "Secret", "guess"}

(* make_hashes: hashlib.sha256(password.encode()).hexdigest() *)
make_hashes(password) ==
    CASE password = "" ->
            "e3b0c44298fc1c149afbf4c8996fb92427ae41e4649b934ca495991b7852b855"
      [] password = "secret" ->
            "2bb80d537b1da3e38bd30361aa855686bde0eacd7162fef6a25fe97bf527a25b"
      [] password = "Secret" ->
            "7e32a729b1226ed1270f282a8c63054d09b26bc9ec53ea69771ce38158dfade8"
      [] password = "guess" ->
            "f1abe1b083d12d181ae136cfc75b8d18a8ecb43ac4e9d1a36d6a9c75b6016b61"

(* check_hashes *)
check_hashes(password, hashed_text) == make_hashes(password) = hashed_text

(* Mutant: the password is not looked at *)
CredentialsMatch_UsernameOnly(u, p, sec) == u = sec.username

(* Line 22 of auth.py *)
CredentialsMatch(u, p, sec) ==
    u = sec.username /\ check_hashes(p, sec.password_hash)

Run(trigger, u, p, rerun) ==
    [trigger |-> trigger, username |-> u, password |-> p, rerun |-> rerun]

(* The script is run for a page load, for st.rerun(), or because a widget  *)
(* other than the two buttons changed                                      *)
PlainRun ==
    /\ mode = "auth"
    /\ runs < MaxRuns
    /\ runs' = runs + 1
    /\ LET auth == IF authenticated = <<>> THEN FALSE ELSE authenticated[1]
       IN /\ authenticated' = <<auth>>
          /\ view' = IF auth THEN "tabs" ELSE "login"
    /\ lastRun' = Run(IF lastRun # <<>> /\ lastRun.rerun THEN "rerun" ELSE "load",
                      "", "", FALSE)
    /\ UNCHANGED <<mode, fetchVars, diag, batchVars, seqVars, rowVars, dlVars,
                   nseVars, secrets>>

(* The Login button of the form is pressed: app.py lines 11-15 and         *)
(* login_form                                                              *)
LoginRun ==
    /\ mode = "auth"
    /\ runs < MaxRuns
    /\ view = "login"
    /\ ~lastRun.rerun
    /\ runs' = runs + 1
    /\ \E u \in Usernames, p \in Passwords :
          LET ok == u # "" /\ p # "" /\ CredentialsMatch(u, p, secrets)
          IN /\ authenticated' = IF ok THEN <<TRUE>> ELSE authenticated
             /\ lastRun' = Run("login", u, p, ok)
    /\ view' = "login"
    /\ UNCHANGED <<mode, fetchVars, diag, batchVars, seqVars, rowVars, dlVars,
                   nseVars, secrets>>

(* The Logout button is pressed: app.py lines 16-17 and logout_button;     *)
(* st.rerun() ends the run before the tabs are built                       *)
LogoutRun ==
    /\ mode = "auth"
    /\ runs < MaxRuns
    /\ view = "tabs"
    /\ ~lastRun.rerun
    /\ runs' = runs + 1
    /\ authenticated' = <<FALSE>>
    /\ view' = "sidebar"
    /\ lastRun' = Run("logout", "", "", TRUE)
    /\ UNCHANGED <<mode, fetchVars, diag, batchVars, seqVars, rowVars, dlVars,
                   nseVars, secrets>>

InitAuth ==
    /\ mode = "auth"
    /\ authenticated = <<>>
    /\ view = "none"
    /\ lastRun = <<>>
    /\ runs = 0
    /\ secrets \in [username : {"admin"},
                    password_hash : {make_hashes("secret"), "secret"}]
    /\ FetchOff
    /\ BatchOff
    /\ RowsOff
    /\ DownloadOff
    /\ NseOff

NextAuth ==
    \/ PlainRun
    \/ LoginRun
    \/ LogoutRun

SpecAuth == InitAuth /\ [][NextAuth]_vars

IsAuthenticated == authenticated = <<TRUE>>

(* What every state of the gate satisfies *)
AuthInv ==
    /\ runs = 0 => authenticated = <<>>
    /\ runs = 1 => authenticated = <<FALSE>>
    /\ view = "tabs" => IsAuthenticated

(* What every script run satisfies *)
AuthStep ==
    /\ (~IsAuthenticated /\ IsAuthenticated') =>
          /\ lastRun'.trigger = "login"
          /\ lastRun'.username = secrets.username
          /\ make_hashes(lastRun'.password) = secrets.password_hash
    /\ (lastRun'.trigger = "login"
        /\ (lastRun'.username = "" \/ lastRun'.password = "")) =>
          authenticated' = authenticated
    /\ lastRun'.trigger = "logout" => authenticated' = <<FALSE>>
    /\ view' = "tabs" => (IsAuthenticated' /\ lastRun'.trigger # "logout")

(* C30: the session starts unauthenticated; the tabs are rendered only in  *)
(* runs in which authenticated is true; authenticated becomes true only by *)
(* a login attempt with the stored username and a password whose hash is   *)
(* the stored hash; an attempt with an empty username or password changes  *)
(* nothing; a logout sets authenticated to false                           *)
C30_TabsOnlyWhenAuthenticated ==
    [][mode = "auth" => (AuthInv /\ AuthInv' /\ AuthStep)]_vars

(* The tabs were rendered after a successful login *)
C30_Witness ==
    /\ mode = "auth"
    /\ view = "tabs"
    /\ lastRun.trigger = "rerun"
    /\ IsAuthenticated

====
